---- MODULE Spec2Model ----
(***************************************************************************)
(* Installer (main.go) and uninstaller (uninstaller.go) of go-qt_installer *)
(* as a state machine.                                                     *)
(*                                                                         *)
(* A path is a sequence of segments (the root directory "/" is <<>>); a    *)
(* segment is a sequence of string tokens, so that lowercasing, the        *)
(* space-to-hyphen replacement, extensions and suffixes are computed and   *)
(* not assumed.                                                            *)
(***************************************************************************)
EXTENDS Integers, Sequences, FiniteSets, TLC

\* ------------------------------------------------------------------ bounds
MaxRuns == 2
MaxWorkers == 1
MaxArchives == 2
MaxEntries == 1
MaxNameLen == 2
MaxSpaceGB == 1
MaxFaults == 1
MaxChoices == 2
MaxUninstallFaults == 2

\* ------------------------------------------------------------- vocabulary
BadArchive == [ok |-> FALSE, count |-> 0]
Archive(n) == [ok |-> TRUE, count |-> n]
NoMsg == [kind |-> "none", val |-> 0]
NoStatfs == [ok |-> FALSE, free |-> 0]
StatfsResults == {NoStatfs} \cup {[ok |-> TRUE, free |-> g] : g \in 0..MaxSpaceGB}
EmptyPath == << <<"">> >>
RootDir == << >>
DotDot == <<"..">>
Dot == <<".">>
SegA == <<"a">>
SegCeleste == <<"Celeste">>
SegLogs == <<"logs">>
SegUninstaller == <<"uninstaller">>
Home == << <<"home">> >>
InstallerDir == << <<"opt">> >>

Segments == {SegA, DotDot}
RECURSIVE SeqsUpTo(_, _)
SeqsUpTo(S, n) ==
    IF n = 0 THEN {<< >>}
    ELSE LET shorter == SeqsUpTo(S, n - 1)
         IN  shorter \cup {Append(s, x) : s \in {t \in shorter : Len(t) = n - 1}, x \in S}
EntryNames == SeqsUpTo(Segments, MaxNameLen) \ {<< >>}
DialogDirs == {RootDir, <<SegCeleste>>}
GameNames == {<<"M", " ", "G">>}
AssetLists == SeqsUpTo({BadArchive} \cup {Archive(n) : n \in 0..MaxEntries}, MaxArchives)

\* ----------------------------------------------------------- path algebra
\* path/filepath.Clean on an absolute path: "" and "." vanish, ".." pops.
RECURSIVE CleanFrom(_, _)
CleanFrom(acc, rest) ==
    IF rest = << >> THEN acc
    ELSE LET s == Head(rest)
         IN  IF s = Dot \/ s = << >> \/ s = <<"">> THEN CleanFrom(acc, Tail(rest))
             ELSE IF s = DotDot
                  THEN CleanFrom(IF acc = << >> THEN acc ELSE SubSeq(acc, 1, Len(acc) - 1),
                                 Tail(rest))
                  ELSE CleanFrom(Append(acc, s), Tail(rest))
Clean(p) == CleanFrom(<< >>, p)

\* filepath.Join(a, b) == Clean(a + "/" + b)
Join(a, b) == Clean(a \o b)

\* filepath.Dir of a clean absolute path
Dir(p) == IF p = << >> THEN p ELSE SubSeq(p, 1, Len(p) - 1)

\* filepath.Base of a clean absolute path
Base(p) == IF p = << >> THEN << >> ELSE p[Len(p)]

IsPrefix(a, b) == Len(a) <= Len(b) /\ SubSeq(b, 1, Len(a)) = a
StrictPrefix(a, b) == Len(a) < Len(b) /\ IsPrefix(a, b)

Prefixes(p) == {SubSeq(p, 1, n) : n \in 1..Len(p)}

\* strings.HasPrefix(fpath, filepath.Clean(root)+"/") for a clean fpath:
\* Clean("/") + "/" is "//", which no clean path starts with.
InsideMutant(fpath, root) == TRUE
Inside(fpath, root) ==
    LET r == Clean(root)
    IN  r # << >> /\ Len(fpath) > Len(r) /\ IsPrefix(r, fpath)

\* strings.ToLower, token by token
LowerTok(c) ==
    CASE c = "C" -> "c"
      [] c = "M" -> "m"
      [] c = "G" -> "g"
      [] c = "Celeste" -> "celeste"
      [] c = ".SH" -> ".sh"
      [] OTHER -> c
ToLower(s) == [i \in 1..Len(s) |-> LowerTok(s[i])]

\* strings.ReplaceAll(s, " ", "-")
SpaceToHyphen(s) == [i \in 1..Len(s) |-> IF s[i] = " " THEN "-" ELSE s[i]]

\* --------------------------------------------------------------- the state
VARIABLES
    config,                  \* var config Config (main.go:56)
    installButton,           \* installButton.IsEnabled()
    createShortcutCheckBox,  \* createShortcutCheckBox.IsChecked()
    progressBar,             \* the progress bar widget: value, maximum, visible
    installInfo,             \* var installInfo InstallInfo (main.go:61)
    dirs,                    \* directories of the file system
    files,                   \* regular files of the file system
    manifests,               \* content of the install-record files
    execMode,                \* paths whose mode was set to 0755
    runs,                    \* one record per call of startInstallation
    extracted,               \* history: paths the extraction loop created, with
                             \* the install root its containment check read
    faults,                  \* environment failures injected so far
    choices,                 \* install paths the user has chosen so far
    uninst                   \* the uninstaller process (uninstaller.go)

vars == <<config, installButton, createShortcutCheckBox, progressBar, installInfo,
          dirs, files, manifests, execMode, runs, extracted, faults, choices, uninst>>

\* -------------------------------------------------------------- file system
Exists(p) == p = RootDir \/ p \in dirs \/ p \in files
IsDirectory(p) == p = RootDir \/ p \in dirs

\* os.MkdirAll(p) cannot succeed when p or an ancestor is a regular file.
MkdirAllBlocked(p) == \E q \in Prefixes(p) : q \in files
MkdirAllDirs(p) == dirs \cup Prefixes(p)

\* os.Create(p) / ioutil.WriteFile(p) need a directory above p and no
\* directory at p.
CreateBlocked(p) == p = RootDir \/ ~IsDirectory(Dir(p)) \/ p \in dirs

\* The environment makes n system calls of a step fail (I/O error, permission
\* denied, ...), within the budget of injected failures.
Fault(n) == faults + n <= MaxFaults /\ faults' = faults + n /\ UNCHANGED <<choices, uninst>>
Bit(b) == IF b THEN 0 ELSE 1

\* ------------------------------------------------------------------ naming
\* strings.ReplaceAll(strings.ToLower(name), " ", "-")
Slug(name) == SpaceToHyphen(ToLower(name))

\* filepath.Join(config.InstallPath, "logs", gameName+"-install.json")
SavePath(root, name) == Join(root, <<SegLogs, Slug(name) \o <<"-install.json">> >>)

AppDir == Join(Home, << <<".local">>, <<"share">>, <<"applications">> >>)
DesktopDirCanonical == Join(Home, << <<"Desktop">> >>)
DesktopDirLocalized == Join(Home, << <<"Desktop-ru">> >>)
ShortcutName(name) == Slug(name) \o <<".desktop">>

\* ------------------------------------------------------------------- Init
\* The uninstaller's InstallInfo (uninstaller.go:43-51) before anything is
\* loaded, and the uninstaller process before main has run.
NoInfo ==
    [GameName |-> << >>, InstallPath |-> EmptyPath, InstallDate |-> 0,
     DesktopFile |-> EmptyPath, MenuFile |-> EmptyPath,
     InstallerPath |-> EmptyPath, InstallerDir |-> EmptyPath]
NoBar == [value |-> 0, max |-> 100, visible |-> FALSE]
NotRunning ==
    [pc |-> "off", exe |-> EmptyPath, argsDir |-> EmptyPath, list |-> {},
     button |-> FALSE, item |-> EmptyPath, info |-> NoInfo, bar |-> NoBar,
     result |-> "none", log |-> << >>, again |-> FALSE, prev |-> << >>]

NoRelPath == << >>
ExecSettings == {[ExecPath |-> NoRelPath, ExecDirs |-> << >>],
                 [ExecPath |-> <<SegA>>, ExecDirs |-> << <<SegA>> >>]}
EmptyInfo ==
    [GameName |-> << >>, InstallPath |-> EmptyPath, InstallDate |-> 0,
     DesktopFile |-> EmptyPath, MenuFile |-> EmptyPath,
     InstallerPath |-> EmptyPath, InstallerDir |-> EmptyPath,
     UninstallerPath |-> EmptyPath]

Init ==
    /\ \E assets \in AssetLists, exec \in ExecSettings, name \in GameNames :
          config = [InstallPath |-> EmptyPath,
                    GameAssets |-> assets,
                    ExecPath |-> exec.ExecPath,
                    ExecDirs |-> exec.ExecDirs,
                    Name |-> name,
                    MinRequiredSpaceGB |-> MaxSpaceGB]
    /\ installButton = FALSE
    /\ createShortcutCheckBox = TRUE
    /\ progressBar = NoBar
    /\ installInfo = EmptyInfo
    /\ dirs = Prefixes(DesktopDirCanonical) \cup Prefixes(InstallerDir)
    /\ files = {Join(InstallerDir, <<SegUninstaller>>)}
    /\ manifests = << >>
    /\ execMode = {}
    /\ runs = << >>
    /\ extracted = {}
    /\ faults = 0
    /\ choices = 0
    /\ uninst = NotRunning

\* ------------------------------------------------------ presentation layer
\* QProgressBar.SetValue: a value outside [0, maximum] leaves the bar alone.
SetValue(bar, v) == IF v >= 0 /\ v <= bar.max THEN [bar EXCEPT !.value = v] ELSE bar

\* chooseInstallPath (the dialog returned the existing directory d), with
\* updateInstallPathDisplay and checkInstallButtonState.
ChooseInstallPath(d) ==
    /\ IsDirectory(d)
    /\ choices < MaxChoices
    /\ choices' = choices + 1
    /\ config' = [config EXCEPT !.InstallPath = Join(d, <<SegCeleste>>)]
    /\ installButton' = (config'.InstallPath # EmptyPath)
    /\ UNCHANGED <<createShortcutCheckBox, progressBar, installInfo, dirs, files,
                   manifests, execMode, runs, extracted, faults, uninst>>

\* The user ticks or unticks the shortcut check box.
ToggleShortcut ==
    /\ createShortcutCheckBox' = ~createShortcutCheckBox
    /\ UNCHANGED <<config, installButton, progressBar, installInfo, dirs, files,
                   manifests, execMode, runs, extracted, faults, choices, uninst>>

\* ------------------------------------------------------------- Preflight
RECURSIVE SumTo(_, _)
SumTo(assets, n) == IF n = 0 THEN 0 ELSE SumTo(assets, n - 1) + assets[n].count

\* Index of the first archive zip.OpenReader fails on, 0 when all open.
FirstBad(assets) ==
    IF \E i \in 1..Len(assets) : ~assets[i].ok
    THEN CHOOSE i \in 1..Len(assets) :
             /\ ~assets[i].ok
             /\ \A j \in 1..(i - 1) : assets[j].ok
    ELSE 0

\* The disk-space test of startInstallation.
SpaceShortfallMutant(free, required) == FALSE
SpaceShortfall(free, required) == free < required

NewRun(failure, total, open, statfs) ==
    [failure |-> failure, statfs |-> statfs, errorsShown |-> IF failure = "none" THEN 0 ELSE 1,
     totalFiles |-> total, zipOpen |-> open, rootMade |-> FALSE,
     root0 |-> config.InstallPath,
     wpc |-> IF failure = "none" THEN "next" ELSE "none",
     lpc |-> IF failure = "none" THEN "select" ELSE "none",
     idx |-> 0, fpath |-> EmptyPath, isDir |-> FALSE, extractedFiles |-> 0,
     out |-> NoMsg,
     progressLog |-> << >>, warnings |-> 0, doneSent |-> 0,
     rejected |-> 0, entryFailed |-> FALSE, fixupFailed |-> FALSE,
     steps |-> << >>, roots |-> {},
     copied |-> FALSE, copiedTo |-> EmptyPath,
     menuMade |-> FALSE, deskMade |-> FALSE,
     logsMade |-> FALSE, infoFilePath |-> EmptyPath, saved |-> FALSE]

\* A fatal exit of startInstallation: one displayError, button re-enabled.
FatalExitMutant(failure, total, open, statfs) ==
    /\ runs' = Append(runs, NewRun(failure, total, open, statfs))
    /\ installButton' = FALSE
    /\ UNCHANGED <<config, createShortcutCheckBox, progressBar, installInfo, dirs,
                   files, manifests, execMode, extracted>>
FatalExit(failure, total, open, statfs) ==
    /\ runs' = Append(runs, NewRun(failure, total, open, statfs))
    /\ installButton' = TRUE
    /\ UNCHANGED <<config, createShortcutCheckBox, progressBar, installInfo, dirs,
                   files, manifests, execMode, extracted>>

\* startInstallation up to the start of the two goroutines (main.go:224-313):
\* statfs is the outcome of syscall.Statfs (an error or the free gigabytes),
\* mkdirOk whether os.MkdirAll(config.InstallPath) is allowed to succeed.
StartInstallation(statfs, mkdirOk) ==
    /\ installButton
    /\ Len(runs) < MaxRuns
    /\ Fault(Bit(statfs.ok) + Bit(mkdirOk))
    /\ LET assets == config.GameAssets
           bad == FirstBad(assets)
           total == SumTo(assets, Len(assets))
       IN  IF bad # 0 THEN FatalExit("open", 0, bad - 1, NoStatfs)
           ELSE IF total = 0 THEN FatalExit("empty", 0, Len(assets), NoStatfs)
           ELSE IF ~statfs.ok THEN FatalExit("statfs", total, Len(assets), statfs)
           ELSE IF SpaceShortfall(statfs.free, config.MinRequiredSpaceGB)
                THEN FatalExit("space", total, Len(assets), statfs)
           ELSE IF ~mkdirOk \/ MkdirAllBlocked(config.InstallPath)
                THEN FatalExit("mkdir", total, Len(assets), statfs)
           ELSE /\ Cardinality({r \in 1..Len(runs) : runs[r].failure = "none"}) < MaxWorkers
                /\ dirs' = MkdirAllDirs(config.InstallPath)
                /\ progressBar' = [value |-> 0, max |-> total, visible |-> TRUE]
                /\ runs' = Append(runs, [NewRun("none", total, Len(assets), statfs)
                                           EXCEPT !.rootMade = TRUE])
                /\ installButton' = FALSE
                /\ UNCHANGED <<config, createShortcutCheckBox, installInfo, files,
                               manifests, execMode, extracted>>

\* -------------------------------------------------- Permission Classifier
\* The part of a token from its last dot on ("" when it has no dot).
TokExt(t) ==
    CASE t = ".sh" -> ".sh"
      [] t = ".SH" -> ".SH"
      [] t = ".bin" -> ".bin"
      [] t = ".x86" -> ".x86"
      [] t = ".x86_64" -> ".x86_64"
      [] t = ".txt" -> ".txt"
      [] t = ".desktop" -> ".desktop"
      [] t = "-install.json" -> ".json"
      [] t = ".local" -> ".local"
      [] t = "." -> "."
      [] t = ".." -> "."
      [] OTHER -> ""

\* filepath.Ext: the suffix of the base name from its last dot on.
RECURSIVE ExtFrom(_, _)
ExtFrom(seg, i) ==
    IF i = 0 THEN << >>
    ELSE IF TokExt(seg[i]) # "" THEN <<TokExt(seg[i])>> \o SubSeq(seg, i + 1, Len(seg))
    ELSE ExtFrom(seg, i - 1)
Ext(p) == ExtFrom(Base(p), Len(Base(p)))

ExecExtensions == {<< >>, <<".sh">>, <<".bin">>, <<".x86">>, <<".x86_64">>}

\* strings.Contains(lowercased base name, word) for the four words of
\* makeFilesExecutable, on the tokens of the vocabulary.
TokHasRunWord(t) == t \in {"run", "start", "game", "celeste"}
HasRunWord(seg) == \E i \in 1..Len(seg) : TokHasRunWord(LowerTok(seg[i]))

\* filepath.Match("*.sh", base) and the like: the base name ends in the
\* pattern's literal suffix.
DefaultPatterns == {".sh", ".bin", ".x86", ".x86_64"}
MatchesPattern(seg, patterns) == Len(seg) > 0 /\ seg[Len(seg)] \in patterns

\* isExecutable of makeFilesExecutable (main.go:137-158)
IsExecutable(p, patterns) ==
    \/ ToLower(Ext(p)) \in ExecExtensions
    \/ HasRunWord(Base(p))
    \/ MatchesPattern(Base(p), patterns)

\* The files filepath.Walk(dir) hands to the callback.
Walked(dir) == {f \in files : IsPrefix(dir, f)}

\* The files one classifier pass decides to chmod.
ClassifierTargets ==
    LET roots == IF Len(config.ExecDirs) > 0
                 THEN {Join(config.InstallPath, config.ExecDirs[i]) :
                          i \in 1..Len(config.ExecDirs)}
                 ELSE {config.InstallPath}
    IN  {f \in UNION {Walked(d) : d \in roots} : IsExecutable(f, DefaultPatterns)}

\* ------------------------------------------------------------- the worker
Progress(n) == [kind |-> "progress", val |-> n]
Warning == [kind |-> "error", val |-> 0]
Completion == [kind |-> "done", val |-> 0]

Ready(r, pc) == r \in 1..Len(runs) /\ runs[r].wpc = pc /\ runs[r].out = NoMsg

\* extractedFiles++ (main.go:336, 371)
IncrMutant(n) == n
Incr(n) == n + 1

\* main.go:324-325: the next entry f of the archives, fpath computed.
WorkerNextEntry(r, name, isDir) ==
    /\ Ready(r, "next")
    /\ UNCHANGED <<faults, choices, uninst>>
    /\ IF runs[r].idx < runs[r].totalFiles
       THEN runs' = [runs EXCEPT ![r].fpath = Join(config.InstallPath, name),
                                 ![r].isDir = isDir,
                                 ![r].roots = @ \cup {config.InstallPath},
                                 ![r].wpc = "check"]
       ELSE runs' = [runs EXCEPT ![r].wpc = "exec"]
    /\ UNCHANGED <<config, installButton, createShortcutCheckBox, progressBar,
                   installInfo, dirs, files, manifests, execMode, extracted>>

\* What an entry that is rejected or fails sends (main.go:329, 343, 350, 358,
\* 367): one message on errorChan.
EntryWarningMutant == NoMsg
EntryWarning == Warning

ExtractOutcomes == {"ok", "mkdirFail", "createFail", "openFail", "copyFail"}

\* main.go:327-372: the containment check and the extraction of one entry.
WorkerExtract(r, outcome) ==
    /\ Ready(r, "check")
    /\ Fault(Bit(outcome = "ok"))
    /\ LET run == runs[r]
           fpath == run.fpath
           root == config.InstallPath
           done == [run EXCEPT !.idx = @ + 1, !.wpc = "next", !.fpath = EmptyPath,
                               !.isDir = FALSE, !.roots = @ \cup {root}]
           warn == [done EXCEPT !.out = EntryWarning, !.entryFailed = TRUE]
           good == [done EXCEPT !.extractedFiles = Incr(@),
                                !.out = Progress(Incr(run.extractedFiles))]
           Made(ps) == {[path |-> q, root |-> root] : q \in ps}
       IN  IF ~Inside(fpath, root)
           THEN /\ runs' = [runs EXCEPT ![r] = [warn EXCEPT !.rejected = @ + 1]]
                /\ UNCHANGED <<dirs, files, extracted>>
           ELSE IF run.isDir
           THEN /\ dirs' = IF outcome = "ok" /\ ~MkdirAllBlocked(fpath)
                           THEN MkdirAllDirs(fpath) ELSE dirs
                /\ extracted' = extracted \cup Made(dirs' \ dirs)
                /\ runs' = [runs EXCEPT ![r] = good]
                /\ UNCHANGED files
           ELSE IF outcome = "mkdirFail" \/ MkdirAllBlocked(Dir(fpath))
           THEN /\ runs' = [runs EXCEPT ![r] = warn]
                /\ UNCHANGED <<dirs, files, extracted>>
           ELSE /\ dirs' = MkdirAllDirs(Dir(fpath))
                /\ IF outcome = "createFail" \/ fpath \in dirs'
                   THEN /\ runs' = [runs EXCEPT ![r] = warn]
                        /\ extracted' = extracted \cup Made(dirs' \ dirs)
                        /\ UNCHANGED files
                   ELSE /\ files' = files \cup {fpath}
                        /\ extracted' = extracted \cup Made((dirs' \ dirs) \cup {fpath})
                        /\ runs' = [runs EXCEPT ![r] =
                                      IF outcome \in {"openFail", "copyFail"}
                                      THEN warn ELSE good]
    /\ UNCHANGED <<config, installButton, createShortcutCheckBox, progressBar,
                   installInfo, manifests, execMode>>

\* main.go:376-387: chmod of the primary executable.
WorkerExecChmod(r, chmodOk) ==
    /\ Ready(r, "exec")
    /\ Fault(Bit(chmodOk))
    /\ LET p == Join(config.InstallPath, config.ExecPath)
           ok == chmodOk /\ Exists(p)
       IN  IF config.ExecPath = NoRelPath
           THEN /\ runs' = [runs EXCEPT ![r].wpc = "classify",
                                        ![r].steps = Append(@, "exec")]
                /\ UNCHANGED execMode
           ELSE /\ execMode' = IF ok THEN execMode \cup {p} ELSE execMode
                /\ runs' = [runs EXCEPT ![r].wpc = "classify",
                                        ![r].steps = Append(@, "exec"),
                                        ![r].roots = @ \cup {config.InstallPath},
                                        ![r].out = IF ok THEN NoMsg ELSE Warning,
                                        ![r].fixupFailed = @ \/ ~ok]
    /\ UNCHANGED <<config, installButton, createShortcutCheckBox, progressBar,
                   installInfo, dirs, files, manifests, extracted>>

\* main.go:389-401: the classifier pass; failed are the files whose chmod
\* fails (only logged).
WorkerClassify(r, failed) ==
    /\ Ready(r, "classify")
    /\ failed \subseteq ClassifierTargets
    /\ Fault(Cardinality(failed))
    /\ execMode' = execMode \cup (ClassifierTargets \ failed)
    /\ runs' = [runs EXCEPT ![r].wpc = "copy",
                            ![r].steps = Append(@, "classify"),
                            ![r].roots = @ \cup {config.InstallPath},
                            ![r].fixupFailed = @ \/ failed # {}]
    /\ UNCHANGED <<config, installButton, createShortcutCheckBox, progressBar,
                   installInfo, dirs, files, manifests, extracted>>

\* The worker after copyFile returned (main.go:408-413): on to the shortcut,
\* whatever the result.
AfterCopyMutant(ok) == IF ok THEN "shortcut" ELSE "exit"
AfterCopy(ok) == "shortcut"

CopyOutcomes == {"ok", "openFail", "createFail", "copyFail", "chmodFail"}
UninstallerSrc == Join(InstallerDir, <<SegUninstaller>>)
InstallerExe == Join(InstallerDir, << <<"installer">> >>)

\* main.go:403-413 with copyFile (main.go:172-191).
WorkerCopyUninstaller(r, outcome) ==
    /\ Ready(r, "copy")
    /\ Fault(Bit(outcome = "ok"))
    /\ LET dst == Join(config.InstallPath, <<SegUninstaller>>)
           opened == outcome # "openFail" /\ UninstallerSrc \in files
           created == opened /\ outcome # "createFail" /\ ~CreateBlocked(dst)
           ok == created /\ outcome = "ok"
       IN  /\ files' = IF created THEN files \cup {dst} ELSE files
           /\ execMode' = IF ok THEN execMode \cup {dst} ELSE execMode
           /\ runs' = [runs EXCEPT ![r].wpc = AfterCopy(ok),
                                   ![r].steps = Append(@, "copy"),
                                   ![r].roots = @ \cup {config.InstallPath},
                                   ![r].out = IF ok THEN NoMsg ELSE Warning,
                                   ![r].copied = ok,
                                   ![r].copiedTo = dst]
    /\ UNCHANGED <<config, installButton, createShortcutCheckBox, progressBar,
                   installInfo, dirs, manifests, extracted>>

\* createShortcut (main.go:430-550): the directories and files it leaves and
\* the fields of installInfo it sets. menuOk and deskOk: whether the two
\* ioutil.WriteFile calls are allowed to succeed.
ShortcutDirs == IF MkdirAllBlocked(AppDir) THEN dirs ELSE MkdirAllDirs(AppDir)
MenuShortcut == Join(AppDir, <<ShortcutName(config.Name)>>)
DesktopDir ==
    IF Exists(DesktopDirCanonical) THEN DesktopDirCanonical ELSE DesktopDirLocalized
DesktopShortcut == Join(DesktopDir, <<ShortcutName(config.Name)>>)

WorkerShortcut(r, menuOk, deskOk) ==
    /\ Ready(r, "shortcut")
    /\ Fault(Bit(menuOk) + Bit(deskOk))
    /\ IF createShortcutCheckBox
       THEN LET menuWritten == /\ menuOk
                               /\ MenuShortcut \notin ShortcutDirs
                               /\ Dir(MenuShortcut) \in ShortcutDirs
                deskWritten == /\ deskOk
                               /\ Exists(DesktopDir)
                               /\ DesktopDir \in dirs
                               /\ DesktopShortcut \notin dirs
            IN  /\ runs' = [runs EXCEPT ![r].wpc = "save",
                                        ![r].steps = Append(@, "shortcut"),
                                        ![r].menuMade = menuWritten,
                                        ![r].deskMade = deskWritten]
                /\ dirs' = ShortcutDirs
                /\ files' = files \cup (IF menuWritten THEN {MenuShortcut} ELSE {})
                                  \cup (IF deskWritten THEN {DesktopShortcut} ELSE {})
                /\ installInfo' =
                     [installInfo EXCEPT
                        !.MenuFile = IF menuWritten THEN MenuShortcut ELSE @,
                        !.DesktopFile = IF deskWritten THEN DesktopShortcut ELSE @]
       ELSE /\ runs' = [runs EXCEPT ![r].wpc = "save",
                                    ![r].steps = Append(@, "shortcut")]
            /\ UNCHANGED <<dirs, files, installInfo>>
    /\ UNCHANGED <<config, installButton, createShortcutCheckBox, progressBar,
                   manifests, execMode, extracted>>

\* The position of the worker at which saveInstallInfo is called
\* (main.go:421): after the shortcut step.
SaveOrderMutant == "next"
SaveOrder == "save"

\* saveInstallInfo, first half (main.go:195-202): the logs directory and the
\* path of the install record. mkdirOk: whether os.MkdirAll may succeed.
WorkerSaveLogsDir(r, mkdirOk) ==
    /\ Ready(r, SaveOrder)
    /\ Fault(Bit(mkdirOk))
    /\ LET logsDir == Join(config.InstallPath, <<SegLogs>>)
           made == mkdirOk /\ ~MkdirAllBlocked(logsDir)
       IN  /\ dirs' = IF made THEN MkdirAllDirs(logsDir) ELSE dirs
           /\ runs' = [runs EXCEPT ![r].wpc = "write",
                                   ![r].steps = Append(@, "save"),
                                   ![r].roots = @ \cup {config.InstallPath},
                                   ![r].logsMade = made,
                                   ![r].infoFilePath =
                                       SavePath(config.InstallPath, config.Name)]
    /\ UNCHANGED <<config, installButton, createShortcutCheckBox, progressBar,
                   installInfo, files, manifests, execMode, extracted>>

\* The install path saveInstallInfo stores in the record (main.go:205).
RecordedInstallPathMutant == installInfo.InstallPath
RecordedInstallPath == config.InstallPath

\* The record saveInstallInfo fills in (main.go:204-209); now is time.Now().
InstallRecord(prev, now) ==
    [prev EXCEPT
       !.GameName = config.Name,
       !.InstallPath = RecordedInstallPath,
       !.InstallDate = now,
       !.InstallerPath = InstallerExe,
       !.InstallerDir = Dir(InstallerExe),
       !.UninstallerPath = Join(config.InstallPath, <<SegUninstaller>>)]

\* saveInstallInfo, second half (main.go:204-221), then doneChan <- true
\* (main.go:421-426). After a failed os.MkdirAll saveInstallInfo has returned
\* and only the send is left. writeOk: whether ioutil.WriteFile may succeed.
WorkerSaveWrite(r, writeOk) ==
    /\ Ready(r, "write")
    /\ Fault(Bit(writeOk))
    /\ LET run == runs[r]
           written == run.logsMade /\ writeOk /\ ~CreateBlocked(run.infoFilePath)
       IN  /\ installInfo' = IF run.logsMade THEN InstallRecord(installInfo, r) ELSE installInfo
           /\ files' = IF written THEN files \cup {run.infoFilePath} ELSE files
           /\ manifests' = IF written
                           THEN (run.infoFilePath :> installInfo') @@ manifests
                           ELSE manifests
           /\ runs' = [runs EXCEPT ![r].wpc = "sent",
                                   ![r].roots = @ \cup {config.InstallPath},
                                   ![r].out = Completion,
                                   ![r].saved = written]
    /\ UNCHANGED <<config, installButton, createShortcutCheckBox, progressBar,
                   dirs, execMode, extracted>>

\* The worker goroutine returns: the deferred r.Close() calls run
\* (main.go:322).
WorkerExit(r) ==
    /\ Ready(r, "sent")
    /\ UNCHANGED <<faults, choices, uninst>>
    /\ runs' = [runs EXCEPT ![r].wpc = "exit", ![r].zipOpen = 0]
    /\ UNCHANGED <<config, installButton, createShortcutCheckBox, progressBar,
                   installInfo, dirs, files, manifests, execMode, extracted>>

\* ----------------------------------------------------------- the listener
\* The listener after the completion case (main.go:302-310): the message box,
\* then return; it never comes back to the select.
AfterCompletionMutant == "warning"
AfterCompletion == "info"

\* The value the completion case applies to the bar (main.go:304): totalFiles
\* as counted before the goroutines started.
FinalValueMutant(run) == run.extractedFiles
FinalValue(run) == run.totalFiles

\* One pass of the select (main.go:294-311): the three channels are
\* unbuffered, so the worker's send and this receive are one step.
ListenerReceive(r) ==
    /\ r \in 1..Len(runs)
    /\ UNCHANGED <<faults, choices, uninst>>
    /\ runs[r].lpc = "select"
    /\ runs[r].out # NoMsg
    /\ LET m == runs[r].out
           run == [runs[r] EXCEPT !.out = NoMsg]
       IN  CASE m.kind = "progress" ->
                  /\ progressBar' = SetValue(progressBar, m.val)
                  /\ runs' = [runs EXCEPT ![r] =
                                [run EXCEPT !.progressLog = Append(@, m.val)]]
             [] m.kind = "error" ->
                  /\ runs' = [runs EXCEPT ![r] =
                                [run EXCEPT !.lpc = "warning", !.warnings = @ + 1]]
                  /\ UNCHANGED progressBar
             [] m.kind = "done" ->
                  /\ progressBar' = SetValue(progressBar, FinalValue(run))
                  /\ runs' = [runs EXCEPT ![r] =
                                [run EXCEPT !.lpc = AfterCompletion, !.doneSent = @ + 1]]
    /\ UNCHANGED <<config, installButton, createShortcutCheckBox, installInfo, dirs,
                   files, manifests, execMode, extracted>>

\* The listener after the warning case (main.go:299-301): the for loop takes
\* it back to the select.
AfterWarningMutant == "stopped"
AfterWarning == "select"

\* The message box of the listener returns: back to the select after a
\* warning; after the completion box the button is re-enabled and the
\* listener returns (main.go:306-310).
ListenerDialogOk(r) ==
    /\ r \in 1..Len(runs)
    /\ UNCHANGED <<faults, choices, uninst>>
    /\ runs[r].lpc \in {"warning", "info"}
    /\ IF runs[r].lpc = "warning"
       THEN /\ runs' = [runs EXCEPT ![r].lpc = AfterWarning]
            /\ UNCHANGED installButton
       ELSE /\ runs' = [runs EXCEPT ![r].lpc = "stopped"]
            /\ installButton' = TRUE
    /\ UNCHANGED <<config, createShortcutCheckBox, progressBar, installInfo, dirs,
                   files, manifests, execMode, extracted>>

\* ---------------------------------------------------------- specification
RunIds == 1..MaxRuns

Next ==
    \/ \E d \in DialogDirs : ChooseInstallPath(d)
    \/ ToggleShortcut
    \/ \E statfs \in StatfsResults, mkdirOk \in BOOLEAN : StartInstallation(statfs, mkdirOk)
    \/ \E r \in RunIds, name \in EntryNames, isDir \in BOOLEAN : WorkerNextEntry(r, name, isDir)
    \/ \E r \in RunIds, outcome \in ExtractOutcomes : WorkerExtract(r, outcome)
    \/ \E r \in RunIds, chmodOk \in BOOLEAN : WorkerExecChmod(r, chmodOk)
    \/ \E r \in RunIds : \E failed \in SUBSET ClassifierTargets : WorkerClassify(r, failed)
    \/ \E r \in RunIds, outcome \in CopyOutcomes : WorkerCopyUninstaller(r, outcome)
    \/ \E r \in RunIds, menuOk \in BOOLEAN, deskOk \in BOOLEAN : WorkerShortcut(r, menuOk, deskOk)
    \/ \E r \in RunIds, mkdirOk \in BOOLEAN : WorkerSaveLogsDir(r, mkdirOk)
    \/ \E r \in RunIds, writeOk \in BOOLEAN : WorkerSaveWrite(r, writeOk)
    \/ \E r \in RunIds : WorkerExit(r)
    \/ \E r \in RunIds : ListenerReceive(r)
    \/ \E r \in RunIds : ListenerDialogOk(r)

Spec == Init /\ [][Next]_vars

\* The worker and listener steps are taken as long as they are enabled: the
\* Go scheduler runs a runnable goroutine, and a message box returns once the
\* user has dismissed it.
WorkerStep(r) ==
    \/ \E name \in EntryNames, isDir \in BOOLEAN : WorkerNextEntry(r, name, isDir)
    \/ WorkerExtract(r, "ok")
    \/ WorkerExecChmod(r, TRUE)
    \/ WorkerClassify(r, {})
    \/ WorkerCopyUninstaller(r, "ok")
    \/ WorkerShortcut(r, TRUE, TRUE)
    \/ WorkerSaveLogsDir(r, TRUE)
    \/ WorkerSaveWrite(r, TRUE)
    \/ WorkerExit(r)
ListenerStep(r) == ListenerReceive(r) \/ ListenerDialogOk(r)

\* Runs over one archive of one entry, with a primary executable configured.
LiveInit == Init /\ config.GameAssets = <<Archive(1)>> /\ config.ExecPath # NoRelPath

FairSpec ==
    /\ LiveInit /\ [][Next]_vars
    /\ \A r \in RunIds : WF_vars(WorkerStep(r)) /\ WF_vars(ListenerStep(r))

\* ---------------------------------------------------------- the uninstaller
\* uninstaller.go is listed in README.md (lines 25-258).

\* json.Unmarshal into the uninstaller's InstallInfo: the fields the struct
\* declares; "uninstaller_path" has no field and is dropped.
Unmarshal(m) == [f \in DOMAIN NoInfo |-> m[f]]

\* strings.HasSuffix(file.Name(), "-install.json")
HasInstallSuffixMutant(name) == Len(name) > 0 /\ name[Len(name)] = ".json"
HasInstallSuffix(name) == Len(name) > 0 /\ name[Len(name)] = "-install.json"

\* findInstallInfoFiles over the files F and directories D; readOk: whether
\* os.Stat and ioutil.ReadDir of the logs directory succeed.
FindInstallInfoFiles(exe, F, D, readOk) ==
    LET logsDir == Join(Dir(exe), <<SegLogs>>)
    IN  IF logsDir \notin D \/ ~readOk THEN {}
        ELSE {p \in F : Dir(p) = logsDir /\ HasInstallSuffix(Base(p))}

\* loadInstallInfo succeeds on a file that holds an install record.
Loadable(p, F, M) == p \in F /\ p \in DOMAIN M

\* updateGamesList: the items of gamesList and the state of uninstallButton.
\* ioutil.ReadDir returns the entries sorted by file name: the place of a
\* name in that order, by its first token.
NameRank(name) ==
    CASE name = << >> -> 0
      [] name[1] = "a" -> 1
      [] name[1] = "c" -> 2
      [] name[1] = "m" -> 3
      [] OTHER -> 4
RECURSIVE SortByName(_)
SortByName(S) ==
    IF S = {} THEN << >>
    ELSE LET first == CHOOSE x \in S :
                          \A y \in S : NameRank(Base(x)) <= NameRank(Base(y))
         IN  <<first>> \o SortByName(S \ {first})

\* The loop of updateGamesList after loadInstallInfo has failed on a file
\* (README.md:161-164): continue with the files that are left.
AfterLoadErrorMutant(rest) == << >>
AfterLoadError(rest) == rest

\* The loop of updateGamesList (README.md:159-168): the items it adds.
RECURSIVE ListItems(_, _, _)
ListItems(infoFiles, F, M) ==
    IF infoFiles = << >> THEN {}
    ELSE IF Loadable(Head(infoFiles), F, M)
         THEN {Head(infoFiles)} \cup ListItems(Tail(infoFiles), F, M)
         ELSE ListItems(AfterLoadError(Tail(infoFiles)), F, M)

UpdateGamesList(u, F, D, M, readOk) ==
    LET items == ListItems(SortByName(FindInstallInfoFiles(u.exe, F, D, readOk)), F, M)
    IN  [u EXCEPT !.list = items, !.button = (items # {})]

\* filepath.Join(filepath.Dir(os.Args[0]), "logs",
\*               strings.ToLower(info.GameName)+"-install.json")
DeletePath(argsDir, info) ==
    Join(argsDir, <<SegLogs, ToLower(info.GameName) \o <<"-install.json">> >>)

\* os.RemoveAll(root) applied to a set of paths.
RemoveTreeMutant(S, root) == S \ {root}
RemoveTree(S, root) == {p \in S : ~IsPrefix(root, p)}

\* The install records of the files that are left.
Restrict(M, F) == [p \in (DOMAIN M) \cap F |-> M[p]]

\* if path != "" { if _, err := os.Stat(path); err == nil { remove } }:
\* what becomes of the target. statOk, rmOk: whether the two calls are
\* allowed to succeed.
OutcomeMutant(path, statOk, rmOk) ==
    IF path = EmptyPath THEN "unset"
    ELSE IF ~statOk THEN "statFailed"
    ELSE IF rmOk THEN "removed"
    ELSE "failed"
Outcome(path, statOk, rmOk) ==
    IF path = EmptyPath THEN "unset"
    ELSE IF ~Exists(path) THEN "absent"
    ELSE IF ~statOk THEN "statFailed"
    ELSE IF rmOk THEN "removed"
    ELSE "failed"

\* os.Remove(path) succeeds on a file and on an empty directory.
Removable(path) ==
    path \in files \/ (path \in dirs /\ \A q \in dirs \cup files : ~StrictPrefix(path, q))

UFault(n) == faults + n <= MaxUninstallFaults /\ faults' = faults + n
InstallerUnchanged ==
    UNCHANGED <<config, installButton, createShortcutCheckBox, progressBar,
                installInfo, execMode, runs, extracted, choices>>

\* The step of uninstallGame that follows a step.
UAfterMutant(step) ==
    CASE step = "menu" -> "root"
      [] step = "desktop" -> "refresh"
      [] step = "root" -> "desktop"
      [] step = "refresh" -> "manifest"
UAfter(step) ==
    CASE step = "menu" -> "desktop"
      [] step = "desktop" -> "root"
      [] step = "root" -> "refresh"
      [] step = "refresh" -> "manifest"

\* main of the uninstaller up to app.Exec (README.md:179-258): the widgets,
\* then updateGamesList.
UMain(readOk) ==
    /\ uninst.pc = "start"
    /\ UFault(Bit(readOk))
    /\ uninst' = [UpdateGamesList(uninst, files, dirs, manifests, readOk)
                    EXCEPT !.pc = "idle"]
    /\ UNCHANGED <<dirs, files, manifests>>
    /\ InstallerUnchanged

\* The click handler of uninstallButton up to the first step of
\* uninstallGame (README.md:217-238, 102-105). item is the current item,
\* loadOk whether ioutil.ReadFile succeeds, yes the answer to the question.
UClick(item, loadOk, yes) ==
    /\ uninst.pc = "idle"
    /\ uninst.button
    /\ item \in uninst.list
    /\ UFault(Bit(loadOk))
    /\ IF loadOk /\ Loadable(item, files, manifests) /\ yes
       THEN uninst' = [uninst EXCEPT
                         !.pc = "menu",
                         !.item = item,
                         !.info = Unmarshal(manifests[item]),
                         !.bar = [value |-> 0, max |-> 4, visible |-> TRUE],
                         !.result = "none",
                         !.log = << >>,
                         !.again = FALSE,
                         !.prev = << >>]
       ELSE UNCHANGED uninst
    /\ UNCHANGED <<dirs, files, manifests>>
    /\ InstallerUnchanged

\* One of the two shortcut steps (README.md:107-114, 116-123): a failed
\* os.Remove is logged and the step goes on to SetValue.
URemoveShortcut(step, path, value, statOk, rmOk) ==
    /\ UFault(Bit(statOk) + Bit(rmOk))
    /\ LET o == Outcome(path, statOk, rmOk /\ Removable(path))
       IN  /\ files' = IF o = "removed" THEN files \ {path} ELSE files
           /\ dirs' = IF o = "removed" THEN dirs \ {path} ELSE dirs
           /\ manifests' = Restrict(manifests, files')
           /\ uninst' = [uninst EXCEPT
                           !.pc = UAfter(step),
                           !.bar = SetValue(@, value),
                           !.log = Append(@, [step |-> step, outcome |-> o])]
    /\ InstallerUnchanged

UMenu(statOk, rmOk) ==
    /\ uninst.pc = "menu"
    /\ URemoveShortcut("menu", uninst.info.MenuFile, 1, statOk, rmOk)

UDesktop(statOk, rmOk) ==
    /\ uninst.pc = "desktop"
    /\ URemoveShortcut("desktop", uninst.info.DesktopFile, 2, statOk, rmOk)

\* The install root (README.md:125-132). A failed os.RemoveAll ends
\* uninstallGame with an error, which the click handler shows (README.md:239);
\* it may have removed part of the tree: here nothing, or the regular files.
RemoveAllResults == {"ok", "nothing", "filesOnly"}

\* return fmt.Errorf(...) of uninstallGame (README.md:127-129) and the error
\* box of the click handler (README.md:238-239): no later step is taken.
URootFailedMutant(u, entry) ==
    [u EXCEPT !.pc = "refresh", !.bar = SetValue(@, 3), !.log = Append(@, entry)]
URootFailed(u, entry) ==
    [u EXCEPT !.pc = "idle", !.result = "error", !.log = Append(@, entry)]

URoot(statOk, rm) ==
    /\ uninst.pc = "root"
    /\ UFault(Bit(statOk) + Bit(rm = "ok"))
    /\ LET root == uninst.info.InstallPath
           o == Outcome(root, statOk, rm = "ok")
       IN  /\ files' = CASE o = "removed" -> RemoveTree(files, root)
                         [] o = "failed" /\ rm = "filesOnly" -> RemoveTree(files, root)
                         [] OTHER -> files
           /\ dirs' = IF o = "removed" THEN RemoveTree(dirs, root) ELSE dirs
           /\ manifests' = Restrict(manifests, files')
           /\ uninst' =
                IF o = "failed"
                THEN URootFailed(uninst, [step |-> "root", outcome |-> o])
                ELSE [uninst EXCEPT
                        !.pc = UAfter("root"),
                        !.bar = SetValue(@, 3),
                        !.log = Append(@, [step |-> "root", outcome |-> o])]
    /\ InstallerUnchanged

\* The two cache refresh commands, their results ignored (README.md:134-137).
URefresh ==
    /\ uninst.pc = "refresh"
    /\ uninst' = [uninst EXCEPT
                    !.pc = UAfter("refresh"),
                    !.bar = SetValue(@, 4),
                    !.log = Append(@, [step |-> "refresh", outcome |-> "ran"])]
    /\ UNCHANGED <<dirs, files, manifests, faults>>
    /\ InstallerUnchanged

\* The install record is deleted and uninstallGame returns nil
\* (README.md:139-146); the click handler then calls updateGamesList
\* (README.md:241).
UManifest(statOk, rmOk, readOk) ==
    /\ uninst.pc = "manifest"
    /\ UFault(Bit(statOk) + Bit(rmOk) + Bit(readOk))
    /\ LET path == DeletePath(uninst.argsDir, uninst.info)
           o == Outcome(path, statOk, rmOk /\ Removable(path))
       IN  /\ files' = IF o = "removed" THEN files \ {path} ELSE files
           /\ dirs' = IF o = "removed" THEN dirs \ {path} ELSE dirs
           /\ manifests' = Restrict(manifests, files')
           /\ uninst' =
                [UpdateGamesList(uninst, files', dirs', manifests', readOk) EXCEPT
                   !.pc = "idle",
                   !.result = "ok",
                   !.log = Append(@, [step |-> "manifest", outcome |-> o])]
    /\ InstallerUnchanged

\* An installation as the installer leaves it: the tree under the install
\* root with the copied uninstaller, the shortcuts createShortcut wrote, and
\* the install record saveInstallInfo wrote. The uninstaller is started from
\* the install root or from the installer's directory, by its full path or
\* from the home directory.
InstallRoots == {Join(d, <<SegCeleste>>) : d \in DialogDirs}
InstalledNames == GameNames \cup {<<"C">>}
InstallRecords == {SavePath(root, name) : root \in InstallRoots, name \in InstalledNames}

\* Files in the logs directory named like manifests that hold no record
\* json.Unmarshal accepts (empty, truncated, edited by hand), one sorted
\* before and one after the manifests of the installer.
Malformed(root) ==
    {Join(root, <<SegLogs, <<"a", "-install.json">> >>),
     Join(root, <<SegLogs, <<"x", "-install.json">> >>)}

UInit ==
    \E root \in InstallRoots, name \in InstalledNames, menu \in BOOLEAN, desk \in BOOLEAN :
    \E bad \in SUBSET Malformed(root) :
      /\ config = [InstallPath |-> root,
                   GameAssets |-> <<Archive(1)>>,
                   ExecPath |-> NoRelPath,
                   ExecDirs |-> << >>,
                   Name |-> name,
                   MinRequiredSpaceGB |-> MaxSpaceGB]
      /\ installButton = TRUE
      /\ createShortcutCheckBox = (menu \/ desk)
      /\ progressBar = [value |-> 1, max |-> 1, visible |-> TRUE]
      /\ dirs = Prefixes(DesktopDirCanonical) \cup Prefixes(InstallerDir)
                  \cup Prefixes(Join(root, <<SegLogs>>))
                  \cup (IF menu \/ desk THEN Prefixes(AppDir) ELSE {})
      /\ installInfo =
           InstallRecord([EmptyInfo EXCEPT
                            !.MenuFile = IF menu THEN MenuShortcut ELSE EmptyPath,
                            !.DesktopFile = IF desk THEN DesktopShortcut ELSE EmptyPath],
                         1)
      /\ files = {UninstallerSrc, Join(root, <<SegUninstaller>>), Join(root, <<SegA>>),
                  SavePath(root, name)}
                   \cup (IF menu THEN {MenuShortcut} ELSE {})
                   \cup (IF desk THEN {DesktopShortcut} ELSE {})
                   \cup bad
      /\ manifests = (SavePath(root, name) :> installInfo)
      /\ execMode = {Join(root, <<SegUninstaller>>)}
      /\ runs = << >>
      /\ extracted = {}
      /\ faults = 0
      /\ choices = 0
      /\ \E exe \in {Join(root, <<SegUninstaller>>), UninstallerSrc} :
           \E argsDir \in {Dir(exe), Home} :
             uninst = [NotRunning EXCEPT !.pc = "start", !.exe = exe, !.argsDir = argsDir]

UNext ==
    \/ \E readOk \in BOOLEAN : UMain(readOk)
    \/ \E item \in InstallRecords, loadOk \in BOOLEAN, yes \in BOOLEAN : UClick(item, loadOk, yes)
    \/ \E statOk \in BOOLEAN, rmOk \in BOOLEAN : UMenu(statOk, rmOk)
    \/ \E statOk \in BOOLEAN, rmOk \in BOOLEAN : UDesktop(statOk, rmOk)
    \/ \E statOk \in BOOLEAN, rm \in RemoveAllResults : URoot(statOk, rm)
    \/ URefresh
    \/ \E statOk \in BOOLEAN, rmOk \in BOOLEAN, readOk \in BOOLEAN : UManifest(statOk, rmOk, readOk)

USpec == UInit /\ [][UNext]_vars

\* uninstallGame is called once more with the record it has just returned
\* success for (README.md:102-105), as a caller that keeps the record can;
\* prev keeps the steps of the first call.
URerun ==
    /\ uninst.pc = "idle"
    /\ uninst.result = "ok"
    /\ ~uninst.again
    /\ uninst' = [uninst EXCEPT
                    !.pc = "menu",
                    !.bar = [value |-> 0, max |-> 4, visible |-> TRUE],
                    !.result = "none",
                    !.prev = uninst.log,
                    !.log = << >>,
                    !.again = TRUE]
    /\ UNCHANGED <<dirs, files, manifests, faults>>
    /\ InstallerUnchanged

RerunNext == UNext \/ URerun
RerunSpec == UInit /\ [][RerunNext]_vars

\* ------------------------------------------------------ states of a run
Runs == 1..Len(runs)
Started(r) == r \in Runs /\ runs[r].failure = "none"
RunState(r) ==
    IF runs[r].failure # "none" THEN "Failed"
    ELSE IF runs[r].doneSent > 0 THEN "Done"
    ELSE IF runs[r].wpc \in {"next", "check"} THEN "Extracting"
    ELSE "Finalizing"

\* The step is a call of startInstallation: it appends a run.
StartsRun == Len(runs') = Len(runs) + 1

\* p lies strictly inside the directory root
StrictlyInside(p, root) == Len(p) > Len(root) /\ IsPrefix(root, p)

\* ------------------------------------------------------------------ C1
\* What the extraction loop created, and the rejection of an entry.
C1_Contained ==
    \A e \in extracted :
        /\ IsPrefix(e.root, e.path)
        /\ e.path \in files => StrictlyInside(e.path, e.root)
        /\ e.path = e.root => e.path \in dirs
C1_Rejected ==
    \A r \in Runs :
        (/\ runs[r].wpc = "check"
         /\ runs'[r].wpc = "next"
         /\ ~StrictlyInside(runs[r].fpath, config.InstallPath))
        => /\ runs'[r].out = Warning
           /\ runs'[r].rejected = runs[r].rejected + 1
           /\ runs'[r].extractedFiles = runs[r].extractedFiles
           /\ dirs' = dirs /\ files' = files /\ extracted' = extracted

\* C1: every file or directory the extraction loop has created lies inside
\* the install root its containment check read (only the root directory
\* itself is not strictly inside), and an entry whose destination is not
\* strictly inside the install root is rejected with a warning: nothing is
\* written and it is not counted.
C1_PathContainment == []C1_Contained /\ [][C1_Rejected]_vars
C1_Witness == \E r \in Runs : runs[r].rejected > 0 /\ extracted # {}

\* ------------------------------------------------------------------ C2
\* The sends of a run, and what follows its completion.
C2_Once ==
    \A r \in Runs :
        /\ runs[r].doneSent <= 1
        /\ runs[r].wpc = "exit" => runs[r].doneSent = 1
        /\ runs[r].doneSent = 1 <=> runs[r].lpc \in {"info", "stopped"}
        /\ runs[r].failure # "none" => runs[r].doneSent = 0 /\ runs[r].out = NoMsg
C2_Last ==
    \A r \in Runs :
        runs[r].doneSent = 1
        => /\ runs'[r].doneSent = 1
           /\ runs'[r].out = NoMsg
           /\ runs'[r].progressLog = runs[r].progressLog
           /\ runs'[r].warnings = runs[r].warnings
           /\ runs'[r].lpc \in {"info", "stopped"}

\* C2: a run that entered Extracting has sent completion at most once, and
\* has sent it when its worker has returned; after it nothing is sent on any
\* of the three channels and the listener is in its final message box or has
\* stopped; a Failed run sends no completion.
C2_CompletionOnce == []C2_Once /\ [][C2_Last]_vars
C2_Witness ==
    \E r \in Runs : runs[r].doneSent = 1 /\ runs[r].lpc = "stopped" /\ runs[r].wpc = "exit"

\* ------------------------------------------------------------------ C3
\* The progress values of a run, and the bar when a run starts.
C3_Increasing ==
    \A r \in Runs :
        LET log == runs[r].progressLog
        IN  /\ \A i \in 1..Len(log) : log[i] <= runs[r].totalFiles
            /\ \A i \in 1..(Len(log) - 1) : log[i] < log[i + 1]
            /\ (/\ Started(r)
                /\ runs[r].wpc \notin {"next", "check"}
                /\ runs[r].out.kind # "progress"
                /\ ~runs[r].entryFailed)
               => log = [i \in 1..runs[r].totalFiles |-> i]
C3_StartsAtZero ==
    (StartsRun /\ runs'[Len(runs')].failure = "none") => progressBar'.value = 0

\* C3: the progress values of a run are strictly increasing and at most the
\* total entry count; when no entry was rejected or failed they are 1..N in
\* order once extraction is over; a run starts with the bar at 0.
C3_Progress == []C3_Increasing /\ [][C3_StartsAtZero]_vars
C3_Witness ==
    \E r \in Runs : runs[r].totalFiles = 2 /\ runs[r].progressLog = <<1, 2>>

\* ------------------------------------------------------------------ C4
\* A run short of disk space, and what its step left behind.
C4_Failed ==
    \A r \in Runs :
        (runs[r].statfs.ok /\ runs[r].statfs.free < config.MinRequiredSpaceGB)
        => /\ RunState(r) = "Failed"
           /\ runs[r].failure = "space"
           /\ ~runs[r].rootMade
C4_NoRoot ==
    (/\ StartsRun
     /\ runs'[Len(runs')].statfs.ok
     /\ runs'[Len(runs')].statfs.free < config.MinRequiredSpaceGB)
    => dirs' = dirs /\ files' = files

\* C4: a run whose measured free space is below min_required_space_gb is
\* Failed, and its step did not create the install root (nor anything else).
C4_SpaceShortfall == []C4_Failed /\ [][C4_NoRoot]_vars
C4_Witness ==
    \E r \in Runs : runs[r].failure = "space" /\ ~Exists(runs[r].root0)

\* ------------------------------------------------------------------ C5
\* A Failed run, and the step of startInstallation that made it.
C5_Failed ==
    \A r \in Runs :
        runs[r].failure # "none"
        => /\ runs[r].errorsShown = 1
           /\ runs[r].progressLog = << >> /\ runs[r].extractedFiles = 0
           /\ runs[r].warnings = 0 /\ runs[r].doneSent = 0
           /\ runs[r].wpc = "none" /\ runs[r].lpc = "none"
C5_Step ==
    StartsRun =>
        LET n == runs'[Len(runs')]
            assets == config.GameAssets
            allOpen == \A i \in 1..Len(assets) : assets[i].ok
            total == SumTo(assets, Len(assets))
        IN  /\ ~allOpen <=> n.failure = "open"
            /\ (allOpen /\ total = 0) <=> n.failure = "empty"
            /\ n.failure = "space" <=> (n.statfs.ok /\ n.statfs.free < config.MinRequiredSpaceGB)
            /\ n.failure = "mkdir" => ~n.rootMade
            /\ n.failure = "none" => n.rootMade /\ IsDirectory(config.InstallPath)'
            /\ n.failure # "none"
               => /\ installButton'
                  /\ progressBar' = progressBar
                  /\ dirs' = dirs /\ files' = files

\* C5: a run ends Failed exactly on an unopenable archive, a total entry
\* count of zero, a failed or short disk-space query or a failed creation of
\* the install root; such a run has shown one error, sent no progress,
\* started neither worker nor listener, left the progress bar and the file
\* system alone and re-enabled the install button.
C5_FatalFailures == []C5_Failed /\ [][C5_Step]_vars
C5_Witness ==
    /\ installButton
    /\ Len(runs) = 2
    /\ runs[1].failure = "space"
    /\ runs[2].failure = "mkdir"

\* ------------------------------------------------------------------ C6
\* A run that passed Preflight stays one.
C6_NeverFailed ==
    \A r \in Runs : runs[r].failure = "none" => runs'[r].failure = "none"

\* C6: a run that has passed Preflight never becomes Failed, and it goes on
\* to emit completion whatever failed on the way: an entry, the chmod of the
\* primary executable or of a classified file, the uninstaller copy, a
\* shortcut, the manifest save.
C6_NonFatal ==
    /\ [][C6_NeverFailed]_vars
    /\ \A r \in RunIds : Started(r) ~> (Started(r) /\ runs[r].doneSent = 1)
C6_Witness ==
    \E r \in Runs :
        /\ RunState(r) = "Done"
        /\ runs[r].steps = <<"exec", "classify", "copy", "shortcut", "save">>
        /\ ~runs[r].copied

\* ------------------------------------------------------------------ C7
\* C7 as claimed: a manifest is written only after all entries were
\* processed and the two permission steps were run, and only for a run in
\* which no entry and no chmod failed.
C7_Original ==
    \A r \in Runs :
        runs[r].saved
        => /\ runs[r].idx = runs[r].totalFiles
           /\ SubSeq(runs[r].steps, 1, 2) = <<"exec", "classify">>
           /\ ~runs[r].entryFailed
           /\ ~runs[r].fixupFailed

\* The step that writes a manifest.
C7_SaveStep ==
    /\ \A r \in Runs :
          (runs'[r].saved /\ ~runs[r].saved)
          => /\ runs[r].failure = "none"
             /\ runs[r].idx = runs[r].totalFiles
             /\ runs[r].steps = <<"exec", "classify", "copy", "shortcut", "save">>
    /\ manifests' # manifests => \E r \in Runs : runs'[r].saved /\ ~runs[r].saved

\* C7 as amended: a manifest is written only by the save step of a run that
\* passed Preflight, after all its entries were processed and after the
\* chmod of the primary executable and the classifier pass were run, whether
\* or not entries or chmods failed.
C7_SavedLast == [][C7_SaveStep]_vars
C7_Witness == \E r \in Runs : runs[r].saved /\ runs[r].entryFailed

\* ------------------------------------------------------------------ C8
\* C8 as claimed: once a run has emitted completion, a manifest exists whose
\* install_path is the install path of the run, and the uninstaller exists
\* in that install root.
C8_Original ==
    \A r \in Runs :
        runs[r].doneSent = 1
        => /\ \E m \in DOMAIN manifests :
                 m \in files /\ manifests[m].InstallPath = runs[r].root0
           /\ Join(runs[r].root0, <<SegUninstaller>>) \in files

\* C8 as amended: once a run has emitted completion, the manifest file exists
\* if its save succeeded and the uninstaller exists where it was copied if
\* the copy succeeded; when both succeeded, the run was the only one and the
\* install path was the same at every read, the manifest is the one of the
\* install root, with install_path equal to it, and the uninstaller is in
\* the install root.
C8_Completed ==
    \A r \in Runs :
        runs[r].doneSent = 1
        => /\ runs[r].saved
              => runs[r].infoFilePath \in files /\ runs[r].infoFilePath \in DOMAIN manifests
           /\ runs[r].copied => runs[r].copiedTo \in files
           /\ (/\ runs[r].saved /\ runs[r].copied
               /\ runs[r].roots = {runs[r].root0}
               /\ \A q \in Runs : Started(q) => q = r)
              => /\ runs[r].infoFilePath = SavePath(runs[r].root0, config.Name)
                 /\ manifests[runs[r].infoFilePath].InstallPath = runs[r].root0
                 /\ Join(runs[r].root0, <<SegUninstaller>>) \in files
C8_Witness ==
    \E r \in Runs :
        /\ runs[r].doneSent = 1 /\ runs[r].saved /\ runs[r].copied
        /\ runs[r].roots = {runs[r].root0}
        /\ runs[r].extractedFiles = 2

\* ------------------------------------------------- states of an uninstall
\* uninstallGame has returned nil for the selected install record.
UDone == uninst.result = "ok"
ULog == uninst.log
UTarget(step) ==
    CASE step = "menu" -> uninst.info.MenuFile
      [] step = "desktop" -> uninst.info.DesktopFile
      [] step = "root" -> uninst.info.InstallPath
      [] step = "manifest" -> DeletePath(uninst.argsDir, uninst.info)
      [] OTHER -> EmptyPath
UOutcomes(step) == {ULog[i].outcome : i \in {j \in 1..Len(ULog) : ULog[j].step = step}}

\* ------------------------------------------------------------------ C9
\* C9 as claimed: after uninstallGame has returned success, the install
\* root, the manifest file and the two shortcut files of the manifest no
\* longer exist.
C9_Original ==
    UDone => /\ ~Exists(uninst.info.InstallPath)
             /\ uninst.item \notin files
             /\ ~Exists(uninst.info.MenuFile)
             /\ ~Exists(uninst.info.DesktopFile)

\* C9 as amended: after uninstallGame has returned success, the install root
\* no longer exists unless its os.Stat failed, each shortcut file of the
\* manifest no longer exists unless its os.Stat or its os.Remove failed, and
\* the manifest file, which lies under the install root, no longer exists
\* unless the os.Stat of the root failed.
C9_Uninstalled ==
    UDone => /\ \A step \in {"menu", "desktop", "root"} :
                   UOutcomes(step) \cap {"statFailed", "failed"} = {}
                   => ~Exists(UTarget(step))
             /\ (/\ "statFailed" \notin UOutcomes("root")
                 /\ StrictPrefix(uninst.info.InstallPath, uninst.item))
                => uninst.item \notin files
C9_Witness ==
    /\ UDone
    /\ \A step \in {"menu", "desktop", "root"} : UOutcomes(step) = {"removed"}
    /\ uninst.item \notin files
    /\ uninst.list = {}

\* ------------------------------------------------------------------ C10
\* The steps uninstallGame has taken are an initial part of the fixed order,
\* and the progress value counts the completed ones among the first four.
StepOrder == <<"menu", "desktop", "root", "refresh", "manifest">>
C10_Ordered(u) ==
    /\ Len(u.log) <= Len(StepOrder)
    /\ \A i \in 1..Len(u.log) : u.log[i].step = StepOrder[i]
    /\ u.pc \in {"menu", "desktop", "root", "refresh", "manifest"} \/ u.result # "none"
       => u.bar.value =
            Cardinality({i \in 1..Len(u.log) : i <= 4 /\ u.log[i].outcome # "failed"})
               + Cardinality({i \in 1..Len(u.log) : i <= 2 /\ u.log[i].outcome = "failed"})

\* A step that removes something from the file system is the removal step of
\* a target whose path is set and which exists, and removes that target only
\* (for the install root: paths at or under it only).
C10_Removes ==
    files' # files \/ dirs' # dirs
    => /\ Len(uninst'.log) = Len(ULog) + 1
       /\ LET step == uninst'.log[Len(ULog) + 1].step
              gone == (files \ files') \cup (dirs \ dirs')
          IN  /\ step = uninst.pc
              /\ step \in {"menu", "desktop", "root", "manifest"}
              /\ UTarget(step) # EmptyPath
              /\ Exists(UTarget(step))
              /\ files' \subseteq files /\ dirs' \subseteq dirs
              /\ IF step = "root"
                 THEN \A q \in gone : IsPrefix(UTarget(step), q)
                 ELSE gone = {UTarget(step)}

\* C10: uninstallation takes its steps in the order menu shortcut, desktop
\* shortcut, install root, cache refresh, manifest deletion; the progress
\* value is 1, 2, 3, 4 after steps 1 to 4; and a shortcut or the install
\* root is removed only when its path is set and it exists.
C10_StepOrder == [][C10_Ordered(uninst') /\ C10_Removes]_vars
C10_Witness ==
    /\ UDone
    /\ Len(ULog) = 5
    /\ uninst.bar.value = 4
    /\ UOutcomes("menu") = {"removed"}
    /\ UOutcomes("desktop") = {"unset"}
    /\ UOutcomes("manifest") = {"removed"}

\* ------------------------------------------------------------------ C11
\* A shortcut step goes on to the next step without an error, whatever
\* became of the shortcut.
C11_ShortcutStep ==
    (uninst.pc \in {"menu", "desktop"} /\ uninst' # uninst)
    => /\ uninst'.pc = (IF uninst.pc = "menu" THEN "desktop" ELSE "root")
       /\ uninst'.result = "none"
       /\ Len(uninst'.log) = Len(ULog) + 1
\* A failed removal of the install root is the last step taken: the error is
\* returned with the progress value at 2.
C11_RootFailure ==
    /\ (\E i \in 1..Len(ULog) : ULog[i] = [step |-> "root", outcome |-> "failed"])
       <=> uninst.result = "error"
    /\ uninst.result = "error"
       => /\ uninst.pc = "idle"
          /\ Len(ULog) = 3
          /\ ULog[3].step = "root"
          /\ uninst.bar.value = 2

\* C11: in uninstallGame a failed removal of the menu or desktop shortcut is
\* not returned as an error and the later steps still run; a failed removal
\* of the install root is returned as an error, after which neither the
\* cache refresh nor the manifest deletion is performed and the progress
\* value stays at 2.
C11_Failures == []C11_RootFailure /\ [][C11_ShortcutStep]_vars
C11_Witness ==
    /\ uninst.result = "error"
    /\ UOutcomes("menu") = {"failed"}
    /\ UOutcomes("desktop") = {"removed"}
    /\ uninst.bar.value = 2

\* ------------------------------------------------------------------ C12
\* uninstallGame is at work on the record loaded from the selected manifest.
UActive == uninst.pc \in {"menu", "desktop", "root", "refresh", "manifest"}

\* C12 as claimed: the path uninstallGame recomputes for the manifest from
\* the record's application name is the path the installer's save wrote the
\* record to, which is the file the record was loaded from.
C12_Original ==
    UActive => /\ DeletePath(uninst.argsDir, uninst.info) = uninst.item
               /\ uninst.item = SavePath(uninst.info.InstallPath, uninst.info.GameName)

\* ------------------------------------------------------------------ C13
\* The fields of the Install Record the installer saves, and the value a
\* record has for one of them ("" when the record has no such field).
InstallInfoFields == DOMAIN EmptyInfo
FieldOf(rec, f) == IF f \in DOMAIN rec THEN rec[f] ELSE EmptyPath

\* C13 as claimed: the record the uninstaller loads from the manifest equals
\* the record the installer saved in every field of the Install Record,
\* uninstaller_path included.
C13_Original ==
    UActive => \A f \in InstallInfoFields :
                   FieldOf(uninst.info, f) = FieldOf(installInfo, f)

\* ------------------------------------------------------------------ C14
\* The manifests on disk, and the step in which main of the uninstaller has
\* run list() and filled the games list.
SavedManifests == (DOMAIN manifests) \cap files
UListing == uninst.pc = "start" /\ uninst'.pc = "idle"

\* C14 as claimed: every manifest a completed installation saved lies in the
\* logs directory next to the running executable and is returned by list().
C14_Original ==
    (uninst.pc = "idle" /\ uninst.result = "none" /\ faults = 0)
    => \A p \in SavedManifests :
           /\ Dir(p) = Join(Dir(uninst.exe), <<SegLogs>>)
           /\ p \in uninst.list

\* C14 as amended: list() scans the logs directory next to the running
\* uninstaller, so it returns a saved manifest exactly when the uninstaller
\* runs from the directory that holds the manifest's logs directory (after a
\* completed installation: the uninstaller copy in the install root) and
\* that directory can be read.
C14_ListStep ==
    UListing
    => \A p \in SavedManifests :
           p \in uninst'.list <=> (Dir(uninst.exe) = Dir(Dir(p)) /\ faults' = faults)
C14_Listed == [][C14_ListStep]_vars
C14_Witness ==
    /\ uninst.pc = "idle" /\ uninst.result = "none"
    /\ uninst.exe = Join(installInfo.InstallPath, <<SegUninstaller>>)
    /\ uninst.list = SavedManifests
    /\ uninst.list # {}

\* ------------------------------------------------------------------ C15
\* The outcomes the first call of uninstallGame had for a step.
UPrevOutcomes(step) ==
    {uninst.prev[i].outcome : i \in {j \in 1..Len(uninst.prev) : uninst.prev[j].step = step}}

UCandidates(F) ==
    {p \in F : Dir(p) = Join(Dir(uninst.exe), <<SegLogs>>) /\ HasInstallSuffix(Base(p))}
UWellFormed(F, M) == UCandidates(F) \cap DOMAIN M
UListed == uninst'.list # uninst.list \/ UListing

\* C16: when updateGamesList has read the logs directory, the games list
\* holds every well-formed manifest of the directory, however many malformed
\* ones come before or after it in the listing, and no malformed one; the
\* listing always ends and leaves the uninstaller waiting for input.
C16_ListStep ==
    (UListed /\ faults' = faults)
    => /\ uninst'.list = UWellFormed(files', manifests')
       /\ uninst'.button = (uninst'.list # {})
       /\ uninst'.pc = "idle"
C16_MalformedSkipped == [][C16_ListStep]_vars
C16_Witness ==
    /\ uninst.pc = "idle" /\ uninst.result = "none"
    /\ Cardinality(uninst.list) = 1
    /\ Cardinality(UCandidates(files)) = 3

\* ------------------------------------------------------------------ C17
\* C17 as claimed: a run that has ended, Failed in Preflight or with its
\* worker returned, holds no archive handle open.
C17_Original ==
    \A r \in Runs :
        (runs[r].failure # "none" \/ runs[r].wpc = "exit") => runs[r].zipOpen = 0

\* ------------------------------------------------------------------ C18
\* While the worker has a send pending, or has more to do, the listener is
\* in its select or in a warning box it will return from.
C18_Receiving ==
    \A r \in Runs :
        (Started(r) /\ (runs[r].out # NoMsg \/ runs[r].wpc \notin {"sent", "exit"}))
        => runs[r].lpc \in {"select", "warning"}

\* C18: a run that has passed Preflight never has its worker blocked on a
\* send the listener will not receive, and under fair scheduling, with
\* dialogs that return, every pending send is received, the worker returns
\* and the listener stops with the run Done.
C18_NoDeadlock ==
    /\ []C18_Receiving
    /\ \A r \in RunIds :
          /\ (Started(r) /\ runs[r].out # NoMsg) ~> (Started(r) /\ runs[r].out = NoMsg)
          /\ Started(r) ~> (/\ Started(r)
                            /\ RunState(r) = "Done"
                            /\ runs[r].wpc = "exit"
                            /\ runs[r].lpc = "stopped")
C18_Witness ==
    \E r \in Runs :
        /\ runs[r].wpc = "exit" /\ runs[r].lpc = "stopped"
        /\ runs[r].warnings = 1
        /\ runs[r].progressLog = << >>

\* ------------------------------------------------------------------ C19
\* C19 as claimed: while a run is in Extracting or Finalizing the install
\* path is the one the run started with, and every read of it by the worker
\* (for the entries, the uninstaller copy and the manifest) saw that path.
C19_Original ==
    \A r \in Runs :
        Started(r)
        => /\ runs[r].roots \subseteq {runs[r].root0}
           /\ RunState(r) \in {"Extracting", "Finalizing"}
              => config.InstallPath = runs[r].root0

\* ------------------------------------------------------------------ C20
\* The worker or the listener of a run is still at work.
Active(r) == Started(r) /\ runs[r].lpc # "stopped"

\* C20 as claimed: from the start of a run until its completion the install
\* button stays disabled and no further call of startInstallation is made.
C20_Original ==
    \A r \in Runs : Active(r) => ~installButton /\ r = Len(runs)

\* ------------------------------------------------------------------ C21
\* Base names of archive members for the classifier: no rule applies, the
\* word "celeste", the slug of the configured name, a run word, an upper-case
\* extension, no extension, a pattern's extension.
ClassBases ==
    {<<"readme", ".txt">>, <<"Celeste", ".txt">>, <<"m", "-", "g", ".txt">>,
     <<"start", ".txt">>, <<"a", ".SH">>, <<"a">>, <<"a", ".sh">>}
ClassEntryNames == {<<b>> : b \in ClassBases}

\* startInstallation over one archive of one member named from ClassBases,
\* the classifier walking the whole install tree (no exec_dirs configured).
ClassInit ==
    Init /\ config.GameAssets = <<Archive(1)>> /\ config.ExecPath = NoRelPath

ClassNext ==
    \/ \E d \in DialogDirs : ChooseInstallPath(d)
    \/ ToggleShortcut
    \/ \E statfs \in StatfsResults, mkdirOk \in BOOLEAN : StartInstallation(statfs, mkdirOk)
    \/ \E r \in RunIds, name \in ClassEntryNames : WorkerNextEntry(r, name, FALSE)
    \/ \E r \in RunIds, outcome \in ExtractOutcomes : WorkerExtract(r, outcome)
    \/ \E r \in RunIds, chmodOk \in BOOLEAN : WorkerExecChmod(r, chmodOk)
    \/ \E r \in RunIds : \E failed \in SUBSET ClassifierTargets : WorkerClassify(r, failed)
    \/ \E r \in RunIds, outcome \in CopyOutcomes : WorkerCopyUninstaller(r, outcome)
    \/ \E r \in RunIds, menuOk \in BOOLEAN, deskOk \in BOOLEAN : WorkerShortcut(r, menuOk, deskOk)
    \/ \E r \in RunIds, mkdirOk \in BOOLEAN : WorkerSaveLogsDir(r, mkdirOk)
    \/ \E r \in RunIds, writeOk \in BOOLEAN : WorkerSaveWrite(r, writeOk)
    \/ \E r \in RunIds : WorkerExit(r)
    \/ \E r \in RunIds : ListenerReceive(r)
    \/ \E r \in RunIds : ListenerDialogOk(r)

ClassifySpec == ClassInit /\ [][ClassNext]_vars

\* The lowercased base name contains the word (a run of tokens).
C21_Contains(seg, word) ==
    \E i \in 1..Len(seg) :
        i + Len(word) - 1 <= Len(seg) /\ SubSeq(ToLower(seg), i, i + Len(word) - 1) = word

\* The three rules as the claim states them, the application slug taken from
\* the configuration.
C21_Rule(f) ==
    \/ ToLower(Ext(f)) \in ExecExtensions
    \/ \E w \in {<<"run">>, <<"start">>, <<"game">>, Slug(config.Name)} :
           C21_Contains(Base(f), w)
    \/ MatchesPattern(Base(f), DefaultPatterns)

\* A classifier pass of a run in which no chmod failed.
C21_Pass(r) ==
    /\ r \in Runs /\ r <= Len(runs')
    /\ runs[r].wpc = "classify" /\ runs'[r].wpc = "copy"
    /\ faults' = faults

\* C21 as claimed: a classifier pass makes a file of the walked tree
\* executable if and only if one of the three rules holds of it, rule (b)
\* with the configured application slug; readme.txt is not made executable.
C21_Original ==
    [][\A r \in RunIds : C21_Pass(r) =>
          \A f \in Walked(config.InstallPath) :
              f \in execMode' <=> (f \in execMode \/ C21_Rule(f))]_vars

\* ------------------------------------------------------------------ C22
\* The worker of run r handles one entry (main.go:327-372).
C22_EntryStep(r) ==
    /\ r \in Runs /\ r <= Len(runs')
    /\ runs[r].wpc = "check" /\ runs'[r].idx = runs[r].idx + 1

\* The entry was not extracted: a system call of the step failed, or its
\* directory or file is not there afterwards.
C22_EntryFailed(r) ==
    \/ faults' > faults
    \/ runs[r].isDir /\ runs[r].fpath \notin dirs'
    \/ ~runs[r].isDir /\ runs[r].fpath \notin files'

\* C22 as claimed: an entry that fails is reported as a warning and is not
\* counted as completed, and the worker goes on to the next entry.
C22_Original ==
    [][\A r \in RunIds : C22_EntryStep(r) /\ C22_EntryFailed(r) =>
          /\ runs'[r].out = Warning
          /\ runs'[r].extractedFiles = runs[r].extractedFiles
          /\ runs'[r].wpc = "next"]_vars

\* ------------------------------------------------------------------ C23
\* The listener of run r takes the completion signal: the run reaches Done.
C23_ReachesDone(r) ==
    r \in Runs /\ r <= Len(runs') /\ runs[r].doneSent = 0 /\ runs'[r].doneSent = 1

\* C23: when a run reaches Done, the value applied to the progress display,
\* and shown by it, is the total entry count computed in Preflight, also
\* when fewer entries were extracted.
C23_FinalProgress ==
    [][\A r \in RunIds : C23_ReachesDone(r) =>
          progressBar'.value = runs[r].totalFiles /\ runs[r].totalFiles > 0]_vars
C23_Witness ==
    \E r \in Runs :
        /\ RunState(r) = "Done"
        /\ runs[r].extractedFiles < runs[r].totalFiles
        /\ progressBar.value = runs[r].totalFiles

\* ------------------------------------------------------------------ C24
\* uninstallGame has been entered and its last action, the deletion of the
\* manifest, has not been taken: it is at one of its steps, or it has
\* returned the error of step 3.
C24_BeforeDeletion ==
    \/ uninst.pc \in {"menu", "desktop", "root", "refresh", "manifest"}
    \/ uninst.pc = "idle" /\ uninst.result = "error"

\* C24 as claimed: the manifest of the uninstall exists in every state before
\* the final manifest-deletion action, in particular after step 3 has run and
\* whenever step 3 has failed.
C24_Original == C24_BeforeDeletion => uninst.item \in files

\* ------------------------------------------------------------------ C25
\* The notifications of run r about its entries: those the listener has
\* received and the one the worker is sending.
C25_Notified(r) ==
    Len(runs[r].progressLog) + runs[r].warnings + (IF runs[r].out = NoMsg THEN 0 ELSE 1)

\* While run r is extracting, and when its extraction has just finished, it
\* has sent one notification for each entry it has handled.
C25_Counted ==
    \A r \in Runs :
        /\ (Started(r) /\ runs[r].wpc \in {"next", "check", "exec"})
           => C25_Notified(r) = runs[r].idx
        /\ (Started(r) /\ runs[r].wpc = "exec")
           => /\ runs[r].idx = runs[r].totalFiles
              /\ runs[r].out = NoMsg
              /\ Len(runs[r].progressLog) + runs[r].warnings = runs[r].totalFiles

\* The step of run r over one entry sends one progress value or one warning.
C25_EntryStep ==
    \A r \in RunIds :
        (r \in Runs /\ r <= Len(runs') /\ runs[r].wpc = "check" /\ runs'[r].wpc # "check")
        => /\ runs'[r].idx = runs[r].idx + 1
           /\ runs[r].out = NoMsg
           /\ runs'[r].out \in {Warning, Progress(runs'[r].extractedFiles)}

\* C25: every entry produces exactly one notification, a progress value or
\* a warning; when extraction finishes, progress notifications plus warnings
\* number the total entry count.
C25_OneNotification == []C25_Counted /\ [][C25_EntryStep]_vars
C25_Witness ==
    \E r \in Runs :
        /\ runs[r].wpc = "exec"
        /\ runs[r].totalFiles = 2
        /\ Len(runs[r].progressLog) = 1
        /\ runs[r].warnings = 1

\* ------------------------------------------------------------------ C26
\* The installer process after one installation under /Celeste has completed
\* and its completion box was dismissed: the tree, the copied uninstaller,
\* the shortcuts createShortcut wrote (menu, desk), the install record, and
\* installInfo as saveInstallInfo left it. runs holds the calls of
\* startInstallation made from here on.
AgainInit ==
    \E menu \in BOOLEAN, desk \in BOOLEAN :
      LET root == Join(RootDir, <<SegCeleste>>)
      IN  /\ \E name \in GameNames :
                config = [InstallPath |-> root,
                          GameAssets |-> <<Archive(1)>>,
                          ExecPath |-> NoRelPath,
                          ExecDirs |-> << >>,
                          Name |-> name,
                          MinRequiredSpaceGB |-> MaxSpaceGB]
          /\ installButton = TRUE
          /\ createShortcutCheckBox = (menu \/ desk)
          /\ progressBar = [value |-> 1, max |-> 1, visible |-> TRUE]
          /\ dirs = Prefixes(DesktopDirCanonical) \cup Prefixes(InstallerDir)
                      \cup Prefixes(Join(root, <<SegLogs>>))
                      \cup (IF menu \/ desk THEN Prefixes(AppDir) ELSE {})
          /\ installInfo =
               InstallRecord([EmptyInfo EXCEPT
                                !.MenuFile = IF menu THEN MenuShortcut ELSE EmptyPath,
                                !.DesktopFile = IF desk THEN DesktopShortcut ELSE EmptyPath],
                             1)
          /\ files = {UninstallerSrc, Join(root, <<SegUninstaller>>), Join(root, <<SegA>>),
                      SavePath(root, config.Name)}
                       \cup (IF menu THEN {MenuShortcut} ELSE {})
                       \cup (IF desk THEN {DesktopShortcut} ELSE {})
          /\ manifests = (SavePath(root, config.Name) :> installInfo)
          /\ execMode = {Join(root, <<SegUninstaller>>), Join(root, <<SegA>>)}
          /\ runs = << >>
          /\ extracted = {}
          /\ faults = 0
          /\ choices = 1
          /\ uninst = NotRunning

AgainSpec == AgainInit /\ [][Next]_vars

\* Run r writes its install record.
C26_Saves(r) ==
    r \in Runs /\ r <= Len(runs') /\ runs[r].wpc = "write" /\ runs'[r].saved

\* C26 as claimed: the record a run saves names a menu shortcut or a desktop
\* shortcut only if the run itself created it, whatever earlier runs in the
\* process did.
C26_Original ==
    [][\A r \in RunIds : C26_Saves(r) =>
          LET rec == manifests'[runs[r].infoFilePath]
          IN  /\ rec.MenuFile # EmptyPath => runs[r].menuMade
              /\ rec.DesktopFile # EmptyPath => runs[r].deskMade]_vars

====
